---- MODULE Spec2Model ----
(***************************************************************************)
(* Model of pdf_converter.py: the output naming resolver                   *)
(* (get_output_basename), the page writer (convert_pdf_pages_to_jpeg), the *)
(* thumbnail writer (generate_pdf_thumbnail) and the batch driver (main).  *)
(* Paths and names are sequences of one-character strings, so that         *)
(* os.path.splitext, os.path.basename, os.path.join, str.lower and the     *)
(* glob patterns are computed character by character.                      *)
(***************************************************************************)
EXTENDS Integers, Sequences, FiniteSets, TLC

VARIABLES args, world, dirs, pc, actual_output_dir, pdf_files_to_process,
          total_files_processed, total_errors, calls, exit_code, exit_at,
          reported, fn_input_path, fn_output_base_arg, fn_result

vars == <<args, world, dirs, pc, actual_output_dir, pdf_files_to_process,
          total_files_processed, total_errors, calls, exit_code, exit_at,
          reported, fn_input_path, fn_output_base_arg, fn_result>>

mainVars == <<args, world, dirs, pc, actual_output_dir, pdf_files_to_process,
              total_files_processed, total_errors, calls, exit_code, exit_at,
              reported>>

fnVars == <<fn_input_path, fn_output_base_arg, fn_result>>

(***************************************************************************)
(* Bounds of the model.                                                    *)
(***************************************************************************)
\* largest number of page images the renderer returns for one PDF
MaxPages == 3
\* largest number of directory entries below the input folder
MaxFiles == 2
\* longest --output-base string tried on get_output_basename alone
MaxLen == 4

(***************************************************************************)
(* Strings.                                                                *)
(***************************************************************************)
\* Python's None; every string is a sequence of one-character strings
None == <<"<None>">>

\* truth value of an optional string argument: None and "" are falsy
Truthy(s) == s # None /\ s # <<>>

sep == "/"

extsep == "."

\* str.lower on one character of the alphabet
LowerChar(c) ==
    CASE c = "A" -> "a"
      [] c = "B" -> "b"
      [] c = "P" -> "p"
      [] c = "D" -> "d"
      [] c = "F" -> "f"
      [] OTHER -> c

Lower(s) == [i \in 1..Len(s) |-> LowerChar(s[i])]

EndsWith(s, suffix) ==
    /\ Len(s) >= Len(suffix)
    /\ SubSeq(s, Len(s) - Len(suffix) + 1, Len(s)) = suffix

\* str.rfind with 0-based result, -1 when absent
rfind(s, c) ==
    LET hits == {i \in 1..Len(s) : s[i] = c}
    IN  IF hits = {} THEN -1
        ELSE (CHOOSE i \in hits : \A j \in hits : j <= i) - 1

\* the while loop of genericpath._splitext: is there a character other than
\* the extension separator at a 0-based index in filenameIndex..dotIndex-1
RECURSIVE splitext_scan(_, _, _)
splitext_scan(p, filenameIndex, dotIndex) ==
    IF filenameIndex < dotIndex
    THEN IF p[filenameIndex + 1] # extsep
         THEN TRUE
         ELSE splitext_scan(p, filenameIndex + 1, dotIndex)
    ELSE FALSE

\* os.path.splitext(p)[0]
splitext_root(p) ==
    LET sepIndex == rfind(p, sep)
        dotIndex == rfind(p, extsep)
    IN  IF dotIndex > sepIndex /\ splitext_scan(p, sepIndex + 1, dotIndex)
        THEN SubSeq(p, 1, dotIndex)
        ELSE p

\* os.path.basename(p)
basename(p) == SubSeq(p, rfind(p, sep) + 2, Len(p))

\* os.path.join(a, b)
join(a, b) ==
    IF b # <<>> /\ b[1] = sep THEN b
    ELSE IF a = <<>> \/ a[Len(a)] = sep THEN a \o b
    ELSE a \o <<sep>> \o b

DigitChars == <<"0", "1", "2", "3", "4", "5", "6", "7", "8", "9">>

\* str(n) of a non-negative integer, as an f-string formats it
RECURSIVE str(_)
str(n) ==
    IF n < 10 THEN <<DigitChars[n + 1]>>
    ELSE str(n \div 10) \o <<DigitChars[(n % 10) + 1]>>

(***************************************************************************)
(* get_output_basename                                                     *)
(***************************************************************************)
\* a resolver that never looks at the override
get_output_basename_ignoring_override(input_path, output_base_arg) ==
    splitext_root(basename(input_path))

get_output_basename(input_path, output_base_arg) ==
    IF Truthy(output_base_arg)
    THEN splitext_root(output_base_arg)
    ELSE splitext_root(basename(input_path))

(***************************************************************************)
(* The renderer and the image codec are external: one conversion's outcome *)
(* is an input.  kind "raise": os.makedirs or convert_from_path raised;    *)
(* kind "images": convert_from_path returned n images, and img.save raised *)
(* on page fail_at (0: every save succeeded).                              *)
(***************************************************************************)
RenderOutcomes(max_images) ==
    {[kind |-> "raise", n |-> 0, fail_at |-> 0]}
    \cup {o \in [kind : {"images"}, n : 0..max_images, fail_at : 0..max_images] :
             o.fail_at <= o.n}

(***************************************************************************)
(* convert_pdf_pages_to_jpeg                                               *)
(***************************************************************************)
\* the f-string of line 100 with page_num = i, off by one
PageFilename_zero_based(output_filename_base, i) ==
    output_filename_base \o <<"_", "p", "a", "g", "e">> \o str(i)
        \o <<".", "j", "p", "g">>

\* output_jpeg_filename for the image at 0-based index i
PageFilename(output_filename_base, i) ==
    LET page_num == i + 1
    IN  output_filename_base \o <<"_", "p", "a", "g", "e">> \o str(page_num)
            \o <<".", "j", "p", "g">>

\* the for loop over enumerate(images): the paths saved, in order, up to the
\* first img.save that raises
RECURSIVE SavePages(_, _, _, _, _)
SavePages(output_dir, output_filename_base, i, n, fail_at) ==
    IF i >= n \/ fail_at = i + 1
    THEN <<>>
    ELSE <<join(output_dir, PageFilename(output_filename_base, i))>>
         \o SavePages(output_dir, output_filename_base, i + 1, n, fail_at)

\* returns (success, num_pages) and the files it saved
convert_pdf_pages_to_jpeg(input_pdf, output_dir, output_filename_base, outcome) ==
    IF outcome.kind = "raise"
    THEN [ok |-> FALSE, num_pages |-> 0, written |-> <<>>]
    ELSE IF outcome.n = 0
    THEN [ok |-> FALSE, num_pages |-> 0, written |-> <<>>]
    ELSE LET saved == SavePages(output_dir, output_filename_base, 0,
                                outcome.n, outcome.fail_at)
         IN  IF outcome.fail_at # 0
             THEN [ok |-> FALSE, num_pages |-> 0, written |-> saved]
             ELSE [ok |-> TRUE, num_pages |-> outcome.n, written |-> saved]

(***************************************************************************)
(* generate_pdf_thumbnail                                                  *)
(***************************************************************************)
generate_pdf_thumbnail(input_pdf, output_dir, output_filename_base, thumb_suffix, outcome) ==
    IF outcome.kind = "raise" \/ outcome.n = 0
    THEN [ok |-> FALSE, num_pages |-> 0, written |-> <<>>]
    ELSE IF outcome.fail_at # 0
    THEN [ok |-> FALSE, num_pages |-> 0, written |-> <<>>]
    ELSE [ok |-> TRUE, num_pages |-> 1,
          written |-> <<join(output_dir, output_filename_base \o thumb_suffix
                                            \o <<".", "j", "p", "g">>)>>]

(***************************************************************************)
(* Command lines and file systems tried.                                   *)
(***************************************************************************)
S_in == <<"i", "n">>

S_out == <<"o", "u", "t">>

S_dot == <<".">>

S_a_pdf == <<"a", ".", "p", "d", "f">>

S_a_PDF == <<"a", ".", "P", "D", "F">>

S_a_Pdf == <<"a", ".", "P", "d", "f">>

S_b_pdf == <<"b", ".", "p", "d", "f">>

S_hidden_pdf == <<".", "h", ".", "p", "d", "f">>

S_c_txt == <<"c", ".", "t", "x", "t">>

S_d_pdf == <<"d", ".", "p", "d", "f">>

S_e_pdf == <<"e", ".", "p", "d", "f">>

S_thumbnail == <<"_", "t", "h", "u", "m", "b", "n", "a", "i", "l">>

\* values of --input-file ("" is accepted by argparse and is falsy)
InputFiles == {<<>>, S_a_pdf, <<"d", "/", "b", ".", "P", "d", "f">>, <<"a", ".", "t", "x", "t">>}

\* values of --input-folder
InputFolders == {<<>>, S_in}

\* values of --output-dir
OutputDirs == {None, <<>>, S_out}

\* values of --output-base
OutputBases == {None, <<>>, <<"o", ".", "p", "d", "f">>, <<"/", "o">>}

\* argparse: exactly one of --input-file and --input-folder is given
ArgsSet ==
    {a \in [input_file : InputFiles \cup {None},
            input_folder : InputFolders \cup {None},
            output_dir : OutputDirs,
            output_base : OutputBases,
            thumbnail_only : BOOLEAN,
            thumb_suffix : {S_thumbnail}] :
        (a.input_file = None) # (a.input_folder = None)}

\* what may lie below the input folder: files, a directory named like a PDF,
\* and a PDF inside that directory
EntryUniverse ==
    {[dir |-> S_in, name |-> S_a_pdf, kind |-> "file"],
     [dir |-> S_in, name |-> S_a_PDF, kind |-> "file"],
     [dir |-> S_in, name |-> S_a_Pdf, kind |-> "file"],
     [dir |-> S_in, name |-> S_b_pdf, kind |-> "file"],
     [dir |-> S_in, name |-> S_hidden_pdf, kind |-> "file"],
     [dir |-> S_in, name |-> S_c_txt, kind |-> "file"],
     [dir |-> S_in, name |-> S_d_pdf, kind |-> "dir"],
     [dir |-> join(S_in, S_d_pdf), name |-> S_e_pdf, kind |-> "file"]}

\* a file system is consistent: a nested file has its directory, and a
\* case-insensitive platform holds no two names that differ in case only
EntriesOk(platform, entries) ==
    /\ Cardinality(entries) <= MaxFiles
    /\ \A e \in entries :
          e.dir # S_in => [dir |-> S_in, name |-> S_d_pdf, kind |-> "dir"] \in entries
    /\ platform = "nt" =>
          \A e, f \in entries :
              (e.dir = f.dir /\ Lower(e.name) = Lower(f.name)) => e = f

(***************************************************************************)
(* File system queries of main.                                            *)
(***************************************************************************)
\* os.path.normcase: identity on posix, lower case on nt
normcase(platform, s) == IF platform = "nt" THEN Lower(s) ELSE s

\* fnmatch of a name against the pattern '*' + suffix, as glob applies it:
\* names that begin with a dot are skipped for a pattern that does not
fnmatch_star(platform, name, suffix) ==
    /\ name # <<>> /\ name[1] # "."
    /\ EndsWith(normcase(platform, name), normcase(platform, suffix))

\* glob.glob(os.path.join(folder, '*' + suffix)) as a set of paths
glob_star(w, existing_dirs, folder, suffix) ==
    IF folder \notin existing_dirs THEN {}
    ELSE {join(folder, e.name) :
             e \in {x \in w.entries :
                       x.dir = folder /\ fnmatch_star(w.platform, x.name, suffix)}}

\* os.path.isfile
isfile(w, a, path) ==
    \/ path = a.input_file /\ w.input_isfile
    \/ \E e \in w.entries : join(e.dir, e.name) = path /\ e.kind = "file"

\* os.path.isdir
isdir(existing_dirs, path) == path \in existing_dirs

\* the directories os.makedirs(path, exist_ok=True) leaves in existence
makedirs(existing_dirs, path) ==
    existing_dirs \cup
        {SubSeq(path, 1, k) : k \in {i \in 1..Len(path) : i = Len(path) \/ path[i + 1] = sep}}

\* every order in which a directory listing may return a set of paths
Orderings(S) ==
    {f \in [1..Cardinality(S) -> S] : \A i, j \in 1..Cardinality(S) : f[i] = f[j] => i = j}

InSeq(x, list) == \E i \in 1..Len(list) : list[i] = x

\* first loop of the folder enumeration: append each match that is a file
RECURSIVE AppendFiles(_, _, _, _)
AppendFiles(w, a, list, found) ==
    IF found = <<>> THEN list
    ELSE AppendFiles(w, a,
                     IF isfile(w, a, Head(found)) THEN Append(list, Head(found)) ELSE list,
                     Tail(found))

\* second loop: append each match that is a file and not yet in the list
RECURSIVE AppendNewFiles(_, _, _, _)
AppendNewFiles(w, a, list, found) ==
    IF found = <<>> THEN list
    ELSE AppendNewFiles(w, a,
                        IF isfile(w, a, Head(found)) /\ ~InSeq(Head(found), list)
                        THEN Append(list, Head(found)) ELSE list,
                        Tail(found))

(***************************************************************************)
(* main: decisions.                                                        *)
(***************************************************************************)
\* actual_output_dir before os.makedirs
DefaultOutputDir(a) ==
    IF Truthy(a.input_folder)
    THEN IF ~Truthy(a.output_dir) THEN a.input_folder ELSE a.output_dir
    ELSE IF Truthy(a.input_file)
    THEN IF ~Truthy(a.output_dir) THEN S_dot ELSE a.output_dir
    ELSE a.output_dir

\* the override applied whenever --output-base is given, folder mode included
CurrentOutputBaseArg_any_mode(a) ==
    IF Truthy(a.output_base) THEN a.output_base ELSE None

\* current_output_base_name_arg
CurrentOutputBaseArg(a) ==
    IF Truthy(a.input_file) /\ Truthy(a.output_base) THEN a.output_base ELSE None

\* the condition guarding shutil.copy2
CopyAttempted(a, current_output_base_name_arg, pages_converted_success) ==
    /\ Truthy(a.input_file)
    /\ Truthy(current_output_base_name_arg)
    /\ pages_converted_success

\* an error counter that also counts a failed copy
ErrorsAfter_counting_copy(errors, converted, copy_raised) ==
    IF converted /\ ~copy_raised THEN errors ELSE errors + 1

\* total_errors after one candidate
ErrorsAfter(errors, converted, copy_raised) ==
    IF converted THEN errors ELSE errors + 1

\* a loop that stops at the first failed candidate
LoopContinues_until_failure(files, done) ==
    /\ Len(done) < Len(files)
    /\ IF done = <<>> THEN TRUE ELSE done[Len(done)].success_flag

\* for pdf_path in pdf_files_to_process: is there a next candidate
LoopContinues(files, done) == Len(done) < Len(files)

\* an exit status that tolerates one error
ExitStatus_tolerant(errors) == IF errors > 1 THEN 1 ELSE 0

\* the final sys.exit
ExitStatus(errors) == IF errors > 0 THEN 1 ELSE 0

\* the number printed as successfully processed files
ReportedOk(files_processed, errors) == files_processed - errors

NotReported == [printed |-> FALSE, total |-> 0, ok |-> 0, err |-> 0]

(***************************************************************************)
(* State.                                                                  *)
(***************************************************************************)
Worlds(a) ==
    {w \in [platform : {"posix", "nt"},
            entries : IF a.input_folder = S_in THEN SUBSET EntryUniverse ELSE {{}},
            input_isfile : IF Truthy(a.input_file) THEN BOOLEAN ELSE {FALSE},
            folder_exists : IF a.input_folder = S_in THEN BOOLEAN ELSE {FALSE}] :
        /\ EntriesOk(w.platform, w.entries)
        /\ ~w.folder_exists => w.entries = {}}

InitialDirs(w) ==
    {S_dot} \cup (IF w.folder_exists THEN {S_in} ELSE {})
            \cup {e.dir : e \in w.entries}

MainNotStarted ==
    /\ pc = "makedirs"
    /\ actual_output_dir = None
    /\ pdf_files_to_process = <<>>
    /\ total_files_processed = 0
    /\ total_errors = 0
    /\ calls = <<>>
    /\ exit_code = -1
    /\ exit_at = "running"
    /\ reported = NotReported

Init ==
    /\ args \in ArgsSet
    /\ world \in Worlds(args)
    /\ dirs = InitialDirs(world)
    /\ MainNotStarted
    /\ fn_input_path = None
    /\ fn_output_base_arg = None
    /\ fn_result = None

Exit(code, at) ==
    /\ pc' = "exited"
    /\ exit_code' = code
    /\ exit_at' = at

(***************************************************************************)
(* main: lines 244-257, the output directory.                              *)
(***************************************************************************)
MakeOutputDir ==
    /\ pc = "makedirs"
    /\ actual_output_dir' = DefaultOutputDir(args)
    /\ \/ \* os.makedirs(None) raises TypeError, which nothing catches
          /\ actual_output_dir' = None
          /\ Exit(1, "uncaught")
          /\ UNCHANGED dirs
       \/ \* OSError: the directory cannot be created
          /\ actual_output_dir' # None
          /\ ~isdir(dirs, actual_output_dir')
          /\ Exit(1, "makedirs")
          /\ UNCHANGED dirs
       \/ /\ Truthy(actual_output_dir')
          /\ dirs' = makedirs(dirs, actual_output_dir')
          /\ pc' = "enumerate"
          /\ UNCHANGED <<exit_code, exit_at>>
    /\ UNCHANGED <<args, world, pdf_files_to_process, total_files_processed,
                   total_errors, calls, reported, fnVars>>

(***************************************************************************)
(* main: lines 260-287, the candidate list.                                *)
(***************************************************************************)
EnumerateFile ==
    /\ pc = "enumerate"
    /\ Truthy(args.input_file)
    /\ IF ~isfile(world, args, args.input_file)
       THEN Exit(1, "input_file_missing") /\ UNCHANGED pdf_files_to_process
       ELSE IF ~EndsWith(Lower(args.input_file), <<".", "p", "d", "f">>)
       THEN Exit(1, "input_file_not_pdf") /\ UNCHANGED pdf_files_to_process
       ELSE /\ pdf_files_to_process' = Append(pdf_files_to_process, args.input_file)
            /\ pc' = "loop"
            /\ UNCHANGED <<exit_code, exit_at>>
    /\ UNCHANGED <<args, world, dirs, actual_output_dir, total_files_processed,
                   total_errors, calls, reported, fnVars>>

EnumerateFolder ==
    /\ pc = "enumerate"
    /\ ~Truthy(args.input_file)
    /\ Truthy(args.input_folder)
    /\ IF ~isdir(dirs, args.input_folder)
       THEN Exit(1, "input_folder_missing") /\ UNCHANGED pdf_files_to_process
       ELSE \E lower \in Orderings(glob_star(world, dirs, args.input_folder,
                                             <<".", "p", "d", "f">>)),
               upper \in Orderings(glob_star(world, dirs, args.input_folder,
                                             <<".", "P", "D", "F">>)) :
            /\ pdf_files_to_process' =
                  AppendNewFiles(world, args,
                                 AppendFiles(world, args, pdf_files_to_process, lower),
                                 upper)
            /\ IF pdf_files_to_process' = <<>>
               THEN Exit(0, "no_pdfs")
               ELSE pc' = "loop" /\ UNCHANGED <<exit_code, exit_at>>
    /\ UNCHANGED <<args, world, dirs, actual_output_dir, total_files_processed,
                   total_errors, calls, reported, fnVars>>

\* neither branch is taken when the given input path is the empty string
EnumerateNothing ==
    /\ pc = "enumerate"
    /\ ~Truthy(args.input_file)
    /\ ~Truthy(args.input_folder)
    /\ pc' = "loop"
    /\ UNCHANGED <<args, world, dirs, actual_output_dir, pdf_files_to_process,
                   total_files_processed, total_errors, calls, exit_code, exit_at,
                   reported, fnVars>>

(***************************************************************************)
(* main: lines 293-334, one iteration of the loop over the candidates.     *)
(***************************************************************************)
CallRecord(pdf_path, base_name, mode, r, success_flag, copy_attempted, copy_raised) ==
    [pdf_path |-> pdf_path,
     base_name |-> base_name,
     output_dir |-> actual_output_dir,
     mode |-> mode,
     ok |-> r.ok,
     num_pages |-> r.num_pages,
     written |-> r.written,
     success_flag |-> success_flag,
     copy_attempted |-> copy_attempted,
     copy_raised |-> copy_raised,
     copy_path |-> IF copy_attempted
                   THEN join(actual_output_dir, base_name \o <<".", "p", "d", "f">>)
                   ELSE None]

ProcessThumbnail ==
    /\ pc = "loop"
    /\ LoopContinues(pdf_files_to_process, calls)
    /\ args.thumbnail_only
    /\ LET pdf_path == pdf_files_to_process[Len(calls) + 1]
           current_output_base_name_arg == CurrentOutputBaseArg(args)
           base_name == get_output_basename(pdf_path, current_output_base_name_arg)
       IN  \E outcome \in RenderOutcomes(1) :
              LET r == generate_pdf_thumbnail(pdf_path, actual_output_dir, base_name,
                                              args.thumb_suffix, outcome)
                  success_flag == r.ok
              IN  /\ total_errors' = ErrorsAfter(total_errors, r.ok, FALSE)
                  /\ total_files_processed' =
                        IF success_flag THEN total_files_processed + 1
                        ELSE total_files_processed
                  /\ calls' = Append(calls, CallRecord(pdf_path, base_name, "thumbnail",
                                                       r, success_flag, FALSE, FALSE))
    /\ UNCHANGED <<args, world, dirs, pc, actual_output_dir, pdf_files_to_process,
                   exit_code, exit_at, reported, fnVars>>

ProcessPages ==
    /\ pc = "loop"
    /\ LoopContinues(pdf_files_to_process, calls)
    /\ ~args.thumbnail_only
    /\ LET pdf_path == pdf_files_to_process[Len(calls) + 1]
           current_output_base_name_arg == CurrentOutputBaseArg(args)
           base_name == get_output_basename(pdf_path, current_output_base_name_arg)
       IN  \E outcome \in RenderOutcomes(MaxPages), copy_raises \in BOOLEAN :
              LET r == convert_pdf_pages_to_jpeg(pdf_path, actual_output_dir,
                                                 base_name, outcome)
                  success_flag == r.ok
                  copy_attempted == CopyAttempted(args, current_output_base_name_arg, r.ok)
                  copy_raised == copy_attempted /\ copy_raises
              IN  /\ copy_raises => copy_attempted
                  /\ total_errors' = ErrorsAfter(total_errors, r.ok, copy_raised)
                  /\ total_files_processed' =
                        IF success_flag THEN total_files_processed + 1
                        ELSE total_files_processed
                  /\ calls' = Append(calls, CallRecord(pdf_path, base_name, "pages",
                                                       r, success_flag, copy_attempted,
                                                       copy_raised))
    /\ UNCHANGED <<args, world, dirs, pc, actual_output_dir, pdf_files_to_process,
                   exit_code, exit_at, reported, fnVars>>

(***************************************************************************)
(* main: lines 336-344, the report and the exit status.                    *)
(***************************************************************************)
Finish ==
    /\ pc = "loop"
    /\ ~LoopContinues(pdf_files_to_process, calls)
    /\ reported' =
          IF pdf_files_to_process # <<>>
          THEN [printed |-> TRUE,
                total |-> Len(pdf_files_to_process),
                ok |-> ReportedOk(total_files_processed, total_errors),
                err |-> total_errors]
          ELSE NotReported
    /\ Exit(ExitStatus(total_errors), "end")
    /\ UNCHANGED <<args, world, dirs, actual_output_dir, pdf_files_to_process,
                   total_files_processed, total_errors, calls, fnVars>>

Next ==
    \/ MakeOutputDir
    \/ EnumerateFile
    \/ EnumerateFolder
    \/ EnumerateNothing
    \/ ProcessThumbnail
    \/ ProcessPages
    \/ Finish

Spec == Init /\ [][Next]_vars

\* the interpreter runs the program to its exit: no step waits on anything
FairSpec == Spec /\ WF_vars(Next)

(***************************************************************************)
(* get_output_basename on its own: a call with drawn arguments.            *)
(***************************************************************************)
PureAlphabet == {"a", ".", "/"}

\* every override of 1..MaxLen characters, and the two falsy ones
PureOverrides ==
    {None, <<>>} \cup UNION {[1..n -> PureAlphabet] : n \in 1..MaxLen}

PurePaths == {S_a_pdf, <<"d", ".", "x", "/", "b", ".", "P", "d", "f">>, join(S_in, S_hidden_pdf)}

InitPure ==
    /\ args = [input_file |-> None, input_folder |-> None, output_dir |-> None,
               output_base |-> None, thumbnail_only |-> FALSE,
               thumb_suffix |-> S_thumbnail]
    /\ world = [platform |-> "posix", entries |-> {}, input_isfile |-> FALSE,
                folder_exists |-> FALSE]
    /\ dirs = InitialDirs(world)
    /\ actual_output_dir = None
    /\ pdf_files_to_process = <<>>
    /\ total_files_processed = 0
    /\ total_errors = 0
    /\ calls = <<>>
    /\ exit_code = -1
    /\ exit_at = "running"
    /\ reported = NotReported
    /\ pc = "call"
    /\ fn_input_path \in PurePaths
    /\ fn_output_base_arg \in PureOverrides
    /\ fn_result = None

CallGetOutputBasename ==
    /\ pc = "call"
    /\ fn_result' = get_output_basename(fn_input_path, fn_output_base_arg)
    /\ pc' = "returned"
    /\ UNCHANGED <<args, world, dirs, actual_output_dir, pdf_files_to_process,
                   total_files_processed, total_errors, calls, exit_code, exit_at,
                   reported, fn_input_path, fn_output_base_arg>>

NextPure == CallGetOutputBasename

SpecPure == InitPure /\ [][NextPure]_vars

(***************************************************************************)
(* Properties.                                                             *)
(***************************************************************************)
FailedCalls == {i \in 1..Len(calls) : ~calls[i].ok}

FolderMode == args.input_folder # None

SingleFileMode == args.input_file # None

\* C1: a run that reaches the loop over the candidates, or that finds no PDF
\* in the input folder, exits with 1 exactly when the conversion of at least
\* one candidate failed, and with 0 otherwise.
C1_ExitCodeIffCandidateFailed ==
    exit_at \in {"end", "no_pdfs"} =>
        /\ exit_code \in {0, 1}
        /\ exit_code = 1 <=> FailedCalls # {}
        /\ calls = <<>> => exit_code = 0

C1_Witness ==
    /\ exit_at = "end"
    /\ exit_code = 1
    /\ \E i, j \in 1..Len(calls) : calls[i].ok /\ ~calls[j].ok

\* C2: in folder mode, when the directory given by --input-folder does not
\* exist at the start, the run exits with 1 and processes no candidate.
C2_MissingInputFolderIsFatal ==
    (FolderMode /\ ~world.folder_exists /\ pc = "exited") =>
        (exit_code = 1 /\ calls = <<>>)

\* the positions at which a trailing extension of o begins: a dot with no
\* dot and no separator after it, and a character other than a dot before it
\* in the same path component
ExtensionStarts(o) ==
    {k \in 1..Len(o) :
        /\ o[k] = "."
        /\ \A j \in (k + 1)..Len(o) : o[j] # "." /\ o[j] # "/"
        /\ \E j \in 1..(k - 1) : o[j] # "." /\ \A i \in j..k : o[i] # "/"}

\* C3: for a non-empty override o, get_output_basename returns o without its
\* trailing extension, whatever the input path is.
C3_OverrideWithoutExtension ==
    (pc = "returned" /\ Truthy(fn_output_base_arg)) =>
        IF ExtensionStarts(fn_output_base_arg) = {}
        THEN fn_result = fn_output_base_arg
        ELSE \E k \in ExtensionStarts(fn_output_base_arg) :
                fn_result = SubSeq(fn_output_base_arg, 1, k - 1)

C3_Witness ==
    /\ pc = "returned"
    /\ Truthy(fn_output_base_arg)
    /\ \E i \in 1..Len(fn_output_base_arg) : fn_output_base_arg[i] = "/"
    /\ fn_result # fn_output_base_arg
    /\ fn_result # splitext_root(basename(fn_input_path))

\* C4: in folder mode every candidate's output base is its own file name
\* without directory and extension, whatever --output-base is, and no copy of
\* the source PDF is made.
C4_FolderModeBaseFromOwnName ==
    FolderMode =>
        \A i \in 1..Len(calls) :
            /\ \E e \in world.entries :
                  /\ calls[i].pdf_path = args.input_folder \o <<"/">> \o e.name
                  /\ Len(e.name) > 4
                  /\ calls[i].base_name = SubSeq(e.name, 1, Len(e.name) - 4)
            /\ ~calls[i].copy_attempted
            /\ calls[i].copy_path = None

C4_Witness ==
    /\ FolderMode
    /\ Truthy(args.output_base)
    /\ exit_at = "end"
    /\ Len(calls) >= 2

\* C5: the source PDF is copied exactly in single-file mode, with a non-empty
\* --output-base, without --thumbnail-only, after a successful full-page
\* conversion; and the copy's outcome changes neither the candidate's success
\* flag, nor the error counter, nor the exit code.
C5_CopyOnlyAfterSuccessAndHarmless ==
    /\ \A i \in 1..Len(calls) :
          /\ calls[i].copy_attempted <=>
                (/\ SingleFileMode
                 /\ Truthy(args.output_base)
                 /\ ~args.thumbnail_only
                 /\ calls[i].ok)
          /\ calls[i].copy_raised => calls[i].copy_attempted
          /\ calls[i].success_flag = calls[i].ok
    /\ total_errors = Cardinality(FailedCalls)
    /\ total_files_processed = Len(calls) - Cardinality(FailedCalls)
    /\ exit_at = "end" => exit_code = (IF FailedCalls = {} THEN 0 ELSE 1)

C5_Witness ==
    /\ exit_at = "end"
    /\ \E i \in 1..Len(calls) : calls[i].copy_attempted /\ calls[i].copy_raised

PdfChildren ==
    {args.input_folder \o <<"/">> \o e.name :
        e \in {x \in world.entries :
                  /\ x.dir = args.input_folder
                  /\ x.kind = "file"
                  /\ x.name[1] # "."
                  /\ EndsWith(Lower(x.name), <<".", "p", "d", "f">>)}}

\* C7: in folder mode the candidate list holds, once each, exactly the
\* regular files directly below the input folder whose extension is .pdf
\* under a case-insensitive match.
C7_ListIsEveryPdfChildOnce ==
    (FolderMode /\ world.folder_exists /\ (pc = "loop" \/ exit_at \in {"no_pdfs", "end"})) =>
        /\ {pdf_files_to_process[i] : i \in 1..Len(pdf_files_to_process)} = PdfChildren
        /\ Len(pdf_files_to_process) = Cardinality(PdfChildren)

\* candidates are taken in list order, one call each, and a failed
\* conversion fails its own candidate only
C8_InOrder ==
    /\ Len(calls) <= Len(pdf_files_to_process)
    /\ \A i \in 1..Len(calls) :
          /\ calls[i].pdf_path = pdf_files_to_process[i]
          /\ calls[i].success_flag = calls[i].ok
    /\ total_errors = Cardinality(FailedCalls)
    /\ exit_at = "end" => Len(calls) = Len(pdf_files_to_process)

\* C8: once the candidate list is fixed, every candidate is processed exactly
\* once, in list order, and the run reaches the final exit with all of them
\* processed, whatever fails on the way.
C8_EveryCandidateProcessed ==
    /\ []C8_InOrder
    /\ (pc = "loop") ~> (exit_at = "end" /\ Len(calls) = Len(pdf_files_to_process))

C8_Witness ==
    /\ exit_at = "end"
    /\ Len(calls) >= 2
    /\ ~calls[1].ok
    /\ calls[2].ok

\* C9: at the end of a run that processed at least one candidate, the
\* reported counts are those of the succeeded and of the failed candidates,
\* and they add up to the number of candidates.
C9_ReportedCountsConsistent ==
    (exit_at = "end" /\ reported.printed) =>
        /\ reported.total = Len(pdf_files_to_process)
        /\ reported.ok = Len(calls) - Cardinality(FailedCalls)
        /\ reported.err = Cardinality(FailedCalls)
        /\ reported.ok + reported.err = reported.total
        /\ reported.ok >= 0

WrittenBy(i) == {calls[i].written[k] : k \in 1..Len(calls[i].written)}

\* C10: in a folder-mode run two distinct candidates never write the same
\* output path.
C10_OutputsDisjoint ==
    FolderMode =>
        \A i, j \in 1..Len(calls) :
            calls[i].pdf_path # calls[j].pdf_path =>
                WrittenBy(i) \cap WrittenBy(j) = {}

====
